---- MODULE Spec2Model ----
(***************************************************************************)
(* A model of the Tetris polling client:                                   *)
(*   - TetrisStrategy (tetris_strategy.py): the board analysis functions   *)
(*     and the move planner decide_move with its action queue;             *)
(*   - TetrisBot (tetris_bot_http.py): the analysis functions of the bot   *)
(*     and its polling loop game_loop.                                     *)
(* Python lists are sequences; a Python index c is position c + 1 of the   *)
(* sequence.  None and the empty list are both the empty sequence where    *)
(* the code only tests truthiness.  random.random() and random.choice()    *)
(* are nondeterministic choices.                                           *)
(***************************************************************************)
EXTENDS Integers, Sequences, FiniteSets, TLC

VARIABLES
    \* TetrisStrategy
    last_matrix,              \* self.last_matrix (<< >> for None)
    current_action_sequence,  \* self.current_action_sequence
    arg,                      \* the matrix passed to the last decide_move call
    ret,                      \* the value the last decide_move call returned
    raised,                   \* the last decide_move call raised an exception
    path,                     \* the return statement the last call left through
    \* board analysis applied to one input
    matrix,                   \* the snapshot under analysis
    previous_matrix,          \* the snapshot before it
    op,                       \* the function applied last
    result,                   \* what it returned
    \* TetrisBot
    pc,                       \* where the bot is: idle, init, top, fetch, done
    running,                  \* self.running
    game_paused,              \* self.game_paused
    connection_errors,        \* game_loop's connection_errors
    bot_last_matrix,          \* self.last_matrix (<< >> for None)
    \* what the current loop iteration has done so far
    seen,                     \* the status its refresh got first; "none": no refresh
    was_paused,               \* game_paused when the iteration began
    paused_at_gate,           \* game_paused when its refresh step was over
    fetched,                  \* get_matrix: "no", or what it returned: "absent", "present"
    sent,                     \* the commands dispatched, in order
    probed,                   \* check_api_connection ran
    \* what the status endpoint has answered over the iterations
    over,                     \* the latest answer was GAME_OVER
    over_at_top,              \* ... and was so when the iteration began
    paused_run,               \* the latest answers in a row that were PAUSED
    resumes_run,              \* the RESUME commands sent since that row began
    last_matrix_update,       \* self.last_matrix_update: 0, or 1 for a clock reading
    restarted                 \* what start's RESTART got: "no" before it, then
                              \* "answered" or "unanswered" (a falsy response)

strategy_vars == <<last_matrix, current_action_sequence, arg, ret, raised, path>>
analysis_vars == <<matrix, previous_matrix, op, result>>
bot_vars == <<pc, running, game_paused, connection_errors, bot_last_matrix,
              seen, was_paused, paused_at_gate, fetched, sent, probed,
              over, over_at_top, paused_run, resumes_run, last_matrix_update, restarted>>

matrix_width == 10
matrix_height == 20

-----------------------------------------------------------------------------
(* Snapshots: sequences of rows [line |-> n, cells |-> <<c0, ..., ck>>].    *)

MaxRows == 2

Zeros == <<0, 0, 0, 0, 0, 0, 0, 0, 0, 0>>
Gap7  == <<1, 1, 1, 1, 1, 1, 1, 0, 0, 0>>
Gap0  == <<0, 0, 0, 2, 2, 2, 2, 2, 2, 2>>
Full  == <<1, 1, 1, 1, 1, 1, 1, 1, 1, 1>>
Six   == <<1, 1, 1, 1, 1, 1>>
Short == <<0, 3>>

\* the rows decide_move is driven with: line 19 empty or partly filled, once
\* by a row shorter than the board is wide, and line 18 partly filled
PlannerRows ==
    { [line |-> 19, cells |-> Gap7],
      [line |-> 19, cells |-> Zeros],
      [line |-> 19, cells |-> Six],
      [line |-> 18, cells |-> Gap0] }

\* the rows the analysis functions are applied to
Rows ==
    PlannerRows \cup
    { [line |-> 18, cells |-> Zeros],
      [line |-> 18, cells |-> Full],
      [line |-> 18, cells |-> Gap7],
      [line |-> 0,  cells |-> Short],
      [line |-> 19, cells |-> << >>] }

SeqsUpTo(S, n) == UNION { [1..k -> S] : k \in 0..n }

Snapshots == SeqsUpTo(Rows, MaxRows)

PlannerSnapshots == SeqsUpTo(PlannerRows, MaxRows)

\* what the poll before can have left with the planner or the bot when a
\* planning function is applied: nothing (None), or line 19 or line 18 as it
\* was before the piece arrived, or the short row of line 0 still empty
EarlierSnapshots ==
    { << >>,
      << [line |-> 19, cells |-> Zeros] >>,
      << [line |-> 18, cells |-> Zeros] >>,
      << [line |-> 18, cells |-> Gap0] >>,
      << [line |-> 0, cells |-> <<0, 0>>] >> }

Commands == {"LEFT", "RIGHT", "DOWN", "DROP", "ROTATE_CW", "ROTATE_CCW"}

-----------------------------------------------------------------------------
(* Helpers for Python's built-ins.                                          *)

Min2(a, b) == IF a < b THEN a ELSE b

Abs(x) == IF x < 0 THEN -x ELSE x

RECURSIVE SumSeq(_)
SumSeq(s) == IF s = << >> THEN 0 ELSE Head(s) + SumSeq(Tail(s))

\* [x] * n
Repeat(x, n) == [i \in 1..n |-> x]

\* s[:n]
Take(s, n) == SubSeq(s, 1, Min2(n, Len(s)))

\* min(s), max(s) of a non-empty list
MinOf(s) == CHOOSE m \in {s[i] : i \in 1..Len(s)} : \A i \in 1..Len(s) : m <= s[i]
MaxOf(s) == CHOOSE m \in {s[i] : i \in 1..Len(s)} : \A i \in 1..Len(s) : m >= s[i]

\* s.index(x): the first Python index holding x
IndexOf(s, x) == (CHOOSE i \in 1..Len(s) : s[i] = x /\ \A j \in 1..(i-1) : s[j] # x) - 1

HasCells(row) == "cells" \in DOMAIN row
HasLine(row) == "line" \in DOMAIN row

-----------------------------------------------------------------------------
(* TetrisStrategy: board analysis.                                          *)

\* the scan with the operands of line 66 swapped
RECURSIVE ScanColumnSwapped(_, _, _)
ScanColumnSwapped(m, col, i) ==
    IF i > Len(m) THEN 0
    ELSE IF HasCells(m[i]) /\ col < Len(m[i].cells) /\ m[i].cells[col + 1] > 0
         THEN m[i].line - matrix_height
         ELSE ScanColumnSwapped(m, col, i + 1)

\* the inner loop of _get_column_heights from row index i on: the first row
\* LISTED with an occupied cell in column col decides, then break
RECURSIVE ScanColumn(_, _, _)
ScanColumn(m, col, i) ==
    IF i > Len(m) THEN 0
    ELSE IF HasCells(m[i]) /\ col < Len(m[i].cells) /\ m[i].cells[col + 1] > 0
         THEN matrix_height - m[i].line
         ELSE ScanColumn(m, col, i + 1)

_get_column_heights(m) == [c \in 1..matrix_width |-> ScanColumn(m, c - 1, 1)]

\* pass 1 of _count_holes: column_tops
RECURSIVE ColumnTops(_, _, _)
ColumnTops(m, i, tops) ==
    IF i > Len(m) THEN tops
    ELSE LET row == m[i]
             next == IF HasCells(row)
                     THEN [c \in 1..matrix_width |->
                             IF c - 1 < Min2(Len(row.cells), matrix_width)
                                /\ row.cells[c] > 0
                             THEN Min2(tops[c], row.line)
                             ELSE tops[c]]
                     ELSE tops
         IN ColumnTops(m, i + 1, next)

\* pass 2 with the comparison of line 91 turned round
RECURSIVE HolesAbove(_, _, _)
HolesAbove(m, i, tops) ==
    IF i > Len(m) THEN 0
    ELSE LET row == m[i]
             here == IF HasCells(row)
                     THEN Cardinality({c \in 0..(Min2(Len(row.cells), matrix_width) - 1) :
                                          row.cells[c + 1] = 0 /\ row.line < tops[c + 1]})
                     ELSE 0
         IN here + HolesAbove(m, i + 1, tops)

\* pass 2 of _count_holes
RECURSIVE HolesFrom(_, _, _)
HolesFrom(m, i, tops) ==
    IF i > Len(m) THEN 0
    ELSE LET row == m[i]
             here == IF HasCells(row)
                     THEN Cardinality({c \in 0..(Min2(Len(row.cells), matrix_width) - 1) :
                                          row.cells[c + 1] = 0 /\ row.line > tops[c + 1]})
                     ELSE 0
         IN here + HolesFrom(m, i + 1, tops)

_count_holes(m) ==
    HolesFrom(m, 1, ColumnTops(m, 1, Repeat(matrix_height, matrix_width)))

\* the sum of line 103 without abs
SignedBumpiness(heights) ==
    IF heights = << >> THEN 0
    ELSE SumSeq([i \in 1..(Len(heights) - 1) |-> heights[i] - heights[i + 1]])

_calculate_bumpiness(heights) ==
    IF heights = << >> THEN 0
    ELSE SumSeq([i \in 1..(Len(heights) - 1) |-> Abs(heights[i] - heights[i + 1])])

\* the search for the matching row in the previous matrix (lines 121-125);
\* 0 when there is none, else its position
RECURSIVE FindLastRow(_, _, _)
FindLastRow(prev, line_num, i) ==
    IF i > Len(prev) THEN 0
    ELSE IF HasLine(prev[i]) /\ prev[i].line = line_num /\ HasCells(prev[i]) THEN i
    ELSE FindLastRow(prev, line_num, i + 1)

\* the comparison of line 131 as "occupied now and not what it was before"
RECURSIVE DifferentCells(_, _, _, _)
DifferentCells(line_num, cells, last_cells, col) ==
    IF col >= Min2(Len(cells), Len(last_cells)) THEN << >>
    ELSE (IF cells[col + 1] > 0 /\ col < Len(last_cells)
             /\ last_cells[col + 1] # cells[col + 1]
          THEN << <<line_num, col>> >> ELSE << >>)
         \o DifferentCells(line_num, cells, last_cells, col + 1)

\* the cells of one row that are occupied now and were empty before, from
\* column col on, as <<line, col>> pairs in ascending column order
RECURSIVE NewCells(_, _, _, _)
NewCells(line_num, cells, last_cells, col) ==
    IF col >= Min2(Len(cells), Len(last_cells)) THEN << >>
    ELSE (IF cells[col + 1] > 0 /\ col < Len(last_cells) /\ last_cells[col + 1] = 0
          THEN << <<line_num, col>> >> ELSE << >>)
         \o NewCells(line_num, cells, last_cells, col + 1)

RECURSIVE ActiveCellsFrom(_, _, _)
ActiveCellsFrom(m, prev, i) ==
    IF i > Len(m) THEN << >>
    ELSE LET row == m[i]
             j == IF HasCells(row) THEN FindLastRow(prev, row.line, 1) ELSE 0
             here == IF j = 0 THEN << >>
                     ELSE NewCells(row.line, row.cells, prev[j].cells, 0)
         IN here \o ActiveCellsFrom(m, prev, i + 1)

\* None is the empty sequence: the function never returns an empty list
_identify_active_piece(m, prev) ==
    IF prev = << >> THEN << >> ELSE ActiveCellsFrom(m, prev, 1)

-----------------------------------------------------------------------------
(* TetrisBot: board analysis.                                               *)

\* the loop of get_heights (lines 304-311) from row index i on: heights
\* holds line numbers, matrix_height standing for "no block seen yet"
RECURSIVE HeightLines(_, _, _)
HeightLines(m, i, heights) ==
    IF i > Len(m) THEN heights
    ELSE LET row == m[i]
             next == IF HasCells(row)
                     THEN [c \in 1..matrix_width |->
                             IF c - 1 < Min2(Len(row.cells), matrix_width)
                                /\ row.cells[c] > 0
                                /\ heights[c] = matrix_height
                             THEN row.line
                             ELSE heights[c]]
                     ELSE heights
         IN HeightLines(m, i + 1, next)

get_heights(m) ==
    LET lines == HeightLines(m, 1, Repeat(matrix_height, matrix_width))
    IN [c \in 1..matrix_width |-> matrix_height - lines[c]]

\* lines 319-342 repeat _count_holes; lines 344-371 repeat
\* _identify_active_piece with self.last_matrix as the previous matrix
count_holes(m) == HolesFrom(m, 1, ColumnTops(m, 1, Repeat(matrix_height, matrix_width)))

identify_active_piece(m, last) == IF last = << >> THEN << >> ELSE ActiveCellsFrom(m, last, 1)

-----------------------------------------------------------------------------
(* TetrisStrategy: planning.  An outcome of a planning function is         *)
(* [exc |-> an exception was raised, seq |-> the queue it leaves behind].  *)

Planned(s) == [exc |-> FALSE, seq |-> s]
Raise == [exc |-> TRUE, seq |-> << >>]

\* sum(1 for cell in cells if cell > 0)
FilledCells(cells) == Cardinality({k \in 1..Len(cells) : cells[k] > 0})

\* the test of line 192 as "more than 7"
RECURSIVE PotentialAbove7(_, _)
PotentialAbove7(m, i) ==
    IF i > Len(m) THEN << >>
    ELSE (IF HasCells(m[i]) /\ FilledCells(m[i].cells) > 7
          THEN << <<m[i].line, FilledCells(m[i].cells)>> >> ELSE << >>)
         \o PotentialAbove7(m, i + 1)

RECURSIVE PotentialFrom(_, _)
PotentialFrom(m, i) ==
    IF i > Len(m) THEN << >>
    ELSE (IF HasCells(m[i]) /\ FilledCells(m[i].cells) >= 7
          THEN << <<m[i].line, FilledCells(m[i].cells)>> >> ELSE << >>)
         \o PotentialFrom(m, i + 1)

_identify_potential_lines(m) == PotentialFrom(m, 1)

\* a max that keeps the last of several maximal elements
MaxByCountLast(lines) ==
    lines[CHOOSE i \in 1..Len(lines) :
             /\ \A j \in 1..Len(lines) : lines[j][2] <= lines[i][2]
             /\ \A j \in (i + 1)..Len(lines) : lines[j][2] < lines[i][2]]

\* max(potential_lines, key=lambda x: x[1]): Python's max keeps the FIRST
\* of several maximal elements
MaxByCount(lines) ==
    lines[CHOOSE i \in 1..Len(lines) :
             /\ \A j \in 1..Len(lines) : lines[j][2] <= lines[i][2]
             /\ \A j \in 1..(i - 1) : lines[j][2] < lines[i][2]]

\* the first Python index of a 0 in cells; Len(cells) when there is none
FirstGap(cells) ==
    IF \E k \in 1..Len(cells) : cells[k] = 0
    THEN (CHOOSE k \in 1..Len(cells) : cells[k] = 0 /\ \A j \in 1..(k - 1) : cells[j] # 0) - 1
    ELSE Len(cells)

\* _get_target_column from row index i on; a row of the target line without
\* a gap does not end the search.  matrix_width / 2 is 5.0, which compares
\* and subtracts as the integer 5
RECURSIVE TargetFrom(_, _, _)
TargetFrom(m, target_row, i) ==
    IF i > Len(m) THEN matrix_width \div 2
    ELSE IF HasLine(m[i]) /\ m[i].line = target_row /\ HasCells(m[i])
            /\ FirstGap(m[i].cells) < Len(m[i].cells)
         THEN FirstGap(m[i].cells)
         ELSE TargetFrom(m, target_row, i + 1)

_get_target_column(m, target_row) == TargetFrom(m, target_row, 1)

\* the moves with int() rounding the distance up instead of down
HorizontalMovesRoundedUp(total, count, target) ==
    IF total < target * count
    THEN Repeat("RIGHT", Min2(3, (target * count - total + count - 1) \div count))
    ELSE Repeat("LEFT", Min2(3, (total - target * count + count - 1) \div count))

\* the horizontal moves of both planning branches for a piece whose columns
\* sum to total over count cells (avg_col = total / count, count > 0):
\* int(target - avg_col) is the floor of a positive quotient
HorizontalMoves(total, count, target) ==
    IF total < target * count
    THEN Repeat("RIGHT", Min2(3, (target * count - total) \div count))
    ELSE Repeat("LEFT", Min2(3, (total - target * count) \div count))

PieceCols(active_piece) == [k \in 1..Len(active_piece) |-> active_piece[k][2]]

\* the minimal-height plan with a third rotation command to draw from
PlanMinimalHeightHalfTurn(m, heights, active_piece) ==
    IF active_piece = << >> THEN {Raise}
    ELSE LET lowest_col == IndexOf(heights, MinOf(heights))
             piece_cols == PieceCols(active_piece)
             moves == HorizontalMoves(SumSeq(piece_cols), Len(piece_cols), lowest_col)
         IN { Planned(Take(moves \o rot \o <<"DROP">>, 4)) :
                rot \in {<< >>, <<"ROTATE_CW">>, <<"ROTATE_CCW">>, <<"ROTATE_180">>} }

\* lines 210-235; iterating over None raises TypeError
_plan_minimal_height_sequence(m, heights, active_piece) ==
    IF active_piece = << >> THEN {Raise}
    ELSE LET lowest_col == IndexOf(heights, MinOf(heights))
             piece_cols == PieceCols(active_piece)
             moves == HorizontalMoves(SumSeq(piece_cols), Len(piece_cols), lowest_col)
         IN { Planned(Take(moves \o rot \o <<"DROP">>, 4)) :
                rot \in {<< >>, <<"ROTATE_CW">>, <<"ROTATE_CCW">>} }

\* the planning with the limit of line 176 set to 4, as on line 235
PlanForPieceCutAt4(m, heights, active_piece) ==
    LET potential_lines == _identify_potential_lines(m)
    IN IF potential_lines # << >>
       THEN IF active_piece = << >> THEN {Raise}
            ELSE LET target_row == MaxByCount(potential_lines)[1]
                     piece_cols == PieceCols(active_piece)
                     moves == HorizontalMoves(SumSeq(piece_cols), Len(piece_cols),
                                              _get_target_column(m, target_row))
                 IN { Planned(Take(moves \o rot \o <<"DROP">>, 4)) :
                        rot \in {<< >>, <<"ROTATE_CW">>} }
       ELSE _plan_minimal_height_sequence(m, heights, active_piece)

\* the planning without line 179: nothing is planned without a potential line
PlanOnlyForPotentialLine(m, heights, active_piece) ==
    LET potential_lines == _identify_potential_lines(m)
    IN IF potential_lines # << >>
       THEN IF active_piece = << >> THEN {Raise}
            ELSE LET target_row == MaxByCount(potential_lines)[1]
                     piece_cols == PieceCols(active_piece)
                     moves == HorizontalMoves(SumSeq(piece_cols), Len(piece_cols),
                                              _get_target_column(m, target_row))
                 IN { Planned(Take(moves \o rot \o <<"DROP">>, 5)) :
                        rot \in {<< >>, <<"ROTATE_CW">>} }
       ELSE {Planned(<< >>)}

\* lines 145-179: the set of outcomes over the random draws; with None for
\* a piece, line 154 (or line 216) raises TypeError
PlanForPiece(m, heights, active_piece) ==
    LET potential_lines == _identify_potential_lines(m)
    IN IF potential_lines # << >>
       THEN IF active_piece = << >> THEN {Raise}
            ELSE LET target_row == MaxByCount(potential_lines)[1]
                     piece_cols == PieceCols(active_piece)
                     moves == HorizontalMoves(SumSeq(piece_cols), Len(piece_cols),
                                              _get_target_column(m, target_row))
                 IN { Planned(Take(moves \o rot \o <<"DROP">>, 5)) :
                        rot \in {<< >>, <<"ROTATE_CW">>} }
       ELSE _plan_minimal_height_sequence(m, heights, active_piece)

\* the planning without the guard of lines 142-143
PlanWithoutGuard(m, heights, holes, bumpiness, active_piece) ==
    PlanForPiece(m, heights, active_piece)

\* the planning with an empty piece for None and no guard: no potential
\* line is looked for, and line 217 takes column 5 for the piece
PlanWithDefaultColumn(m, heights, holes, bumpiness, active_piece) ==
    IF active_piece = << >>
    THEN { Planned(Take(HorizontalMoves(5, 1, IndexOf(heights, MinOf(heights)))
                        \o rot \o <<"DROP">>, 4)) :
             rot \in {<< >>, <<"ROTATE_CW">>, <<"ROTATE_CCW">>} }
    ELSE PlanForPiece(m, heights, active_piece)

\* lines 136-179: line 139 empties the queue, lines 142-143 leave it so
\* when there is no active piece
_plan_action_sequence(m, heights, holes, bumpiness, active_piece) ==
    IF active_piece = << >> THEN {Planned(<< >>)}
    ELSE PlanForPiece(m, heights, active_piece)

\* the fallback reading the column of the last cell of the estimate where
\* lines 244 and 259 read the first
BasicStrategyLastCell(m, heights, holes, bumpiness, active_piece) ==
    IF holes > 3 /\ active_piece # << >>
    THEN LET min_height_col == IndexOf(heights, MinOf(heights))
             active_col == active_piece[Len(active_piece)][2]
         IN IF active_col < min_height_col THEN {"RIGHT"}
            ELSE IF active_col > min_height_col THEN {"LEFT"}
            ELSE {"DROP"}
    ELSE IF /\ bumpiness > 5
            /\ active_piece # << >>
            /\ active_piece[Len(active_piece)][2] = IndexOf(heights, MaxOf(heights))
    THEN IF 2 * IndexOf(heights, MaxOf(heights)) > matrix_width THEN {"LEFT"} ELSE {"RIGHT"}
    ELSE {"ROTATE_CW", "ROTATE_CCW"} \cup {"DROP"} \cup {"LEFT", "RIGHT", "DOWN", "ROTATE_CW"}

\* lines 237-275: the set of commands the fallback can return
_basic_strategy(m, heights, holes, bumpiness, active_piece) ==
    IF holes > 3 /\ active_piece # << >>
    THEN LET min_height_col == IndexOf(heights, MinOf(heights))
             active_col == active_piece[1][2]
         IN IF active_col < min_height_col THEN {"RIGHT"}
            ELSE IF active_col > min_height_col THEN {"LEFT"}
            ELSE {"DROP"}
    ELSE IF /\ bumpiness > 5
            /\ active_piece # << >>
            /\ active_piece[1][2] = IndexOf(heights, MaxOf(heights))
    THEN IF 2 * IndexOf(heights, MaxOf(heights)) > matrix_width THEN {"LEFT"} ELSE {"RIGHT"}
    ELSE {"ROTATE_CW", "ROTATE_CCW"} \cup {"DROP"} \cup {"LEFT", "RIGHT", "DOWN", "ROTATE_CW"}

\* a choice among all six commands
RandomAmongAll == Commands

\* random.choice(['LEFT', 'RIGHT', 'DOWN', 'ROTATE_CW'])
_random_move == {"LEFT", "RIGHT", "DOWN", "ROTATE_CW"}

\* list.pop(): the last element instead of the first
PopLast(s) == <<s[Len(s)], SubSeq(s, 1, Len(s) - 1)>>

\* the head read and left in the list
PeekHead(s) == <<Head(s), s>>

\* list.pop(0): <<the element removed, the list left>>
pop0(s) == <<Head(s), Tail(s)>>

-----------------------------------------------------------------------------
(* TetrisStrategy.decide_move, one call per step.                          *)

StrategyInit ==
    /\ last_matrix = << >>
    /\ current_action_sequence = << >>
    /\ arg = << >>
    /\ ret = ""
    /\ raised = FALSE
    /\ path = "init"

\* decide_move with lines 19-20 moved below the return of line 27: a call
\* that only dequeues leaves the cached snapshot as it was
decide_move_caching_on_plan(m) ==
    /\ arg' = m
    /\ IF m = << >>
       THEN /\ \E mv \in _random_move : ret' = mv
            /\ raised' = FALSE
            /\ path' = "random"
            /\ UNCHANGED <<last_matrix, current_action_sequence>>
       ELSE /\ last_matrix' = (IF current_action_sequence # << >> THEN last_matrix ELSE m)
            /\ IF current_action_sequence # << >>
               THEN /\ ret' = pop0(current_action_sequence)[1]
                    /\ current_action_sequence' = pop0(current_action_sequence)[2]
                    /\ raised' = FALSE
                    /\ path' = "sequence"
               ELSE LET heights == _get_column_heights(m)
                        holes == _count_holes(m)
                        bumpiness == _calculate_bumpiness(heights)
                        active_piece == _identify_active_piece(m, last_matrix)
                    IN \E plan \in _plan_action_sequence(m, heights, holes, bumpiness,
                                                         active_piece) :
                         IF plan.exc
                         THEN /\ ret' = ""
                              /\ raised' = TRUE
                              /\ path' = "raise"
                              /\ current_action_sequence' = plan.seq
                         ELSE IF plan.seq # << >>
                         THEN /\ ret' = pop0(plan.seq)[1]
                              /\ current_action_sequence' = pop0(plan.seq)[2]
                              /\ raised' = FALSE
                              /\ path' = "planned"
                         ELSE /\ \E mv \in _basic_strategy(m, heights, holes, bumpiness,
                                                           active_piece) : ret' = mv
                              /\ raised' = FALSE
                              /\ path' = "basic"
                              /\ current_action_sequence' = plan.seq

decide_move(m) ==
    /\ arg' = m
    /\ IF m = << >>
       THEN /\ \E mv \in _random_move : ret' = mv
            /\ raised' = FALSE
            /\ path' = "random"
            /\ UNCHANGED <<last_matrix, current_action_sequence>>
       ELSE /\ last_matrix' = m
            /\ IF current_action_sequence # << >>
               THEN /\ ret' = pop0(current_action_sequence)[1]
                    /\ current_action_sequence' = pop0(current_action_sequence)[2]
                    /\ raised' = FALSE
                    /\ path' = "sequence"
               ELSE LET heights == _get_column_heights(m)
                        holes == _count_holes(m)
                        bumpiness == _calculate_bumpiness(heights)
                        active_piece == _identify_active_piece(m, last_matrix)
                    IN \E plan \in _plan_action_sequence(m, heights, holes, bumpiness,
                                                         active_piece) :
                         IF plan.exc
                         THEN /\ ret' = ""
                              /\ raised' = TRUE
                              /\ path' = "raise"
                              /\ current_action_sequence' = plan.seq
                         ELSE IF plan.seq # << >>
                         THEN /\ ret' = pop0(plan.seq)[1]
                              /\ current_action_sequence' = pop0(plan.seq)[2]
                              /\ raised' = FALSE
                              /\ path' = "planned"
                         ELSE /\ \E mv \in _basic_strategy(m, heights, holes, bumpiness,
                                                           active_piece) : ret' = mv
                              /\ raised' = FALSE
                              /\ path' = "basic"
                              /\ current_action_sequence' = plan.seq

-----------------------------------------------------------------------------
(* The analysis functions applied to one snapshot (and one before it).      *)

AnalysisIdle ==
    /\ matrix = << >>
    /\ previous_matrix = << >>
    /\ op = "none"
    /\ result = << >>

AnalysisInit ==
    /\ matrix \in Snapshots
    /\ previous_matrix = << >>
    /\ op = "none"
    /\ result = << >>

Apply(name, value) ==
    /\ op = "none"
    /\ op' = name
    /\ result' = value
    /\ UNCHANGED matrix
    /\ UNCHANGED <<strategy_vars, bot_vars>>

ApplyColumnHeights ==
    Apply("_get_column_heights", _get_column_heights(matrix)) /\ UNCHANGED previous_matrix

ApplyGetHeights ==
    Apply("get_heights", get_heights(matrix)) /\ UNCHANGED previous_matrix

ApplyCountHoles ==
    Apply("_count_holes", _count_holes(matrix)) /\ UNCHANGED previous_matrix

ApplyBotCountHoles ==
    Apply("count_holes", count_holes(matrix)) /\ UNCHANGED previous_matrix

ApplyBumpiness ==
    Apply("_calculate_bumpiness", _calculate_bumpiness(_get_column_heights(matrix)))
    /\ UNCHANGED previous_matrix

ApplyPotentialLines ==
    Apply("_identify_potential_lines", _identify_potential_lines(matrix))
    /\ UNCHANGED previous_matrix

\* _get_target_column for the line of a row of the matrix, or for a line
\* without a row; the result is kept with the line asked for
ApplyTargetColumn ==
    \E target_row \in {matrix[i].line : i \in 1..Len(matrix)} \cup {17} :
        /\ Apply("_get_target_column",
                 <<target_row, _get_target_column(matrix, target_row)>>)
        /\ UNCHANGED previous_matrix

\* lines 146-151: the target line, when there are potential lines
ApplyTargetLine ==
    /\ _identify_potential_lines(matrix) # << >>
    /\ Apply("target_line", MaxByCount(_identify_potential_lines(matrix)))
    /\ UNCHANGED previous_matrix

\* the previous snapshot is one of those decide_move is driven with
ApplyIdentifyActivePiece ==
    \E prev \in PlannerSnapshots :
        /\ previous_matrix' = prev
        /\ Apply("_identify_active_piece", _identify_active_piece(matrix, prev))

ApplyBotIdentifyActivePiece ==
    \E last \in PlannerSnapshots :
        /\ previous_matrix' = last
        /\ Apply("identify_active_piece", identify_active_piece(matrix, last))

\* _plan_action_sequence for the snapshot and the estimate of the active
\* piece against an earlier one: the outcomes over the random draws
ApplyPlanActionSequence ==
    \E prev \in EarlierSnapshots :
        /\ previous_matrix' = prev
        /\ Apply("_plan_action_sequence",
                 LET heights == _get_column_heights(matrix)
                 IN _plan_action_sequence(matrix, heights, _count_holes(matrix),
                                          _calculate_bumpiness(heights),
                                          _identify_active_piece(matrix, prev)))

-----------------------------------------------------------------------------
(* TetrisBot: the move decision of the polling loop.                        *)

\* lines 373-434: the set of commands decide_next_move can return, last
\* being self.last_matrix.  avg_height_diff > 1.5 over the 9 adjacent pairs
\* is 2 * sum > 3 * 9
decide_next_move(m, last) ==
    IF m = << >> THEN {"LEFT", "RIGHT", "DOWN", "ROTATE_CW"}
    ELSE LET heights == get_heights(m)
             height_diffs == [i \in 1..(Len(heights) - 1) |->
                                 Abs(heights[i] - heights[i + 1])]
             holes == count_holes(m)
             active_piece == identify_active_piece(m, last)
         IN IF holes > 3 /\ active_piece # << >>
            THEN LET min_height_col == IndexOf(heights, MinOf(heights))
                     active_col == active_piece[1][2]
                 IN IF active_col < min_height_col THEN {"RIGHT"}
                    ELSE IF active_col > min_height_col THEN {"LEFT"}
                    ELSE {"DROP"}
            ELSE IF /\ 2 * SumSeq(height_diffs) > 3 * Len(height_diffs)
                    /\ active_piece # << >>
                    /\ active_piece[1][2] = IndexOf(heights, MaxOf(heights))
            THEN IF 2 * IndexOf(heights, MaxOf(heights)) > matrix_width
                 THEN {"LEFT"} ELSE {"RIGHT"}
            ELSE {"ROTATE_CW", "ROTATE_CCW"} \cup {"DROP"} \cup {"LEFT", "RIGHT", "DOWN"}

\* _basic_strategy called on its own for the snapshot and the estimate of
\* the active piece against an earlier one
ApplyBasicStrategy ==
    \E prev \in EarlierSnapshots :
        /\ previous_matrix' = prev
        /\ Apply("_basic_strategy",
                 LET heights == _get_column_heights(matrix)
                 IN _basic_strategy(matrix, heights, _count_holes(matrix),
                                    _calculate_bumpiness(heights),
                                    _identify_active_piece(matrix, prev)))

\* decide_next_move for the snapshot, self.last_matrix being an earlier one
ApplyDecideNextMove ==
    \E last \in EarlierSnapshots :
        /\ previous_matrix' = last
        /\ Apply("decide_next_move", decide_next_move(matrix, last))

-----------------------------------------------------------------------------
(* TetrisBot: the status endpoint and the pause handling of game_loop.      *)

\* what get_status can return: None (any failure), a JSON object without a
\* state field, or an object whose state field is one of these strings.  An
\* empty JSON object is false in every test the code makes, as None is; the
\* object without a state field here is a non-empty one
NoStatus == "None"
NoStateField == "NO_STATE_FIELD"
States == {"PLAYING", "PAUSED", "GAME_OVER", "UNKNOWN"}
StatusResponses == {NoStatus, NoStateField} \cup States

\* `status and 'state' in status`
HasState(status) == status \in States

\* `status and status.get('state') == 'PAUSED'`
SaysPaused(status) == status = "PAUSED"

\* the refresh without lines 157-159: only PLAYING ends a pause
RefreshOnlyPlaying(paused, status, status2) ==
    IF HasState(status)
    THEN IF status = "PAUSED" /\ ~paused
         THEN [paused |-> SaysPaused(status2), sent |-> <<"RESUME">>]
         ELSE IF status = "PLAYING" /\ paused
         THEN [paused |-> FALSE, sent |-> << >>]
         ELSE [paused |-> paused, sent |-> << >>]
    ELSE [paused |-> paused, sent |-> << >>]

\* lines 138-159, given the status read at line 136 and, where line 145
\* reads it again, that second status: the new game_paused and the
\* commands sent
RefreshStatus(paused, status, status2) ==
    IF HasState(status)
    THEN IF status = "PAUSED" /\ ~paused
         THEN [paused |-> SaysPaused(status2), sent |-> <<"RESUME">>]
         ELSE IF status = "PLAYING" /\ paused
         THEN [paused |-> FALSE, sent |-> << >>]
         ELSE [paused |-> (status = "PAUSED"), sent |-> << >>]
    ELSE [paused |-> paused, sent |-> << >>]

\* whether RefreshStatus reads the status a second time
ReadsAgain(paused, status) == status = "PAUSED" /\ ~paused

\* the loop without lines 165-168
NoGate(paused) == "fetch"

\* lines 165-168: where the iteration goes once the refresh step is over
Gate(paused) == IF paused THEN "top" ELSE "fetch"

\* lines 196-207, within the branch of an absent matrix: the same, for a
\* status that is read when no matrix has arrived for 5 seconds
StaleStatus(paused, status, status2) ==
    IF status # NoStatus
    THEN IF SaysPaused(status)
         THEN [paused |-> SaysPaused(status2), sent |-> <<"RESUME">>]
         ELSE [paused |-> FALSE, sent |-> << >>]
    ELSE [paused |-> paused, sent |-> << >>]

max_connection_errors == 5

\* the test of line 210 as "more than max_connection_errors"
CountFailureLate(errors) ==
    IF errors + 1 > max_connection_errors
    THEN [errors |-> 0, probed |-> TRUE]
    ELSE [errors |-> errors + 1, probed |-> FALSE]

\* lines 190 and 210-213: the counter after one more absent matrix, and
\* whether check_api_connection ran
CountFailure(errors) ==
    IF errors + 1 >= max_connection_errors
    THEN [errors |-> 0, probed |-> TRUE]
    ELSE [errors |-> errors + 1, probed |-> FALSE]

\* the snapshots get_matrix returns to the loop; << >> is "no matrix"
BotSnapshots ==
    { << >>,
      << [line |-> 18, cells |-> Zeros] >>,
      << [line |-> 18, cells |-> Gap0], [line |-> 19, cells |-> Zeros] >> }

\* the row of PAUSED answers counted up to here
MaxPausedRun == 4

\* the bookkeeping of the answers of the status endpoint: answers is the
\* sequence of answers one step read, resumes the RESUME commands it sent
RECURSIVE RunAfter(_, _)
RunAfter(run, answers) ==
    IF answers = << >> THEN run
    ELSE RunAfter(IF Head(answers) = "PAUSED" THEN Min2(run + 1, MaxPausedRun) ELSE 0,
                  Tail(answers))

ResumesAfter(resumes, answers, n) ==
    IF answers # << >> /\ answers[Len(answers)] # "PAUSED" THEN 0
    ELSE Min2(resumes + n, MaxPausedRun)

OverAfter(o, answers) ==
    IF answers = << >> THEN o ELSE answers[Len(answers)] = "GAME_OVER"

Answers(status, again, status2) == IF again THEN <<status, status2>> ELSE <<status>>

HasStarted == pc \in {"top", "fetch", "done"}

BotIdle ==
    /\ pc = "idle"
    /\ running = FALSE
    /\ game_paused = FALSE
    /\ connection_errors = 0
    /\ bot_last_matrix = << >>
    /\ seen = "none"
    /\ was_paused = FALSE
    /\ paused_at_gate = FALSE
    /\ fetched = "no"
    /\ sent = << >>
    /\ probed = FALSE
    /\ over = FALSE
    /\ over_at_top = FALSE
    /\ paused_run = 0
    /\ resumes_run = 0
    /\ last_matrix_update = 0
    /\ restarted = "no"

\* lines 10-20: the bot as constructed
BotInit ==
    /\ pc = "init"
    /\ running = FALSE
    /\ game_paused = FALSE
    /\ connection_errors = 0
    /\ bot_last_matrix = << >>
    /\ seen = "none"
    /\ was_paused = FALSE
    /\ paused_at_gate = FALSE
    /\ fetched = "no"
    /\ sent = << >>
    /\ probed = FALSE
    /\ over = FALSE
    /\ over_at_top = FALSE
    /\ paused_run = 0
    /\ resumes_run = 0
    /\ last_matrix_update = 0
    /\ restarted = "no"

\* start without line 35: the flag set at line 31 stays set
start_stays_paused ==
    /\ pc = "init"
    /\ pc' = "top"
    /\ running' = TRUE
    /\ \E status \in StatusResponses, restart_ok \in BOOLEAN :
         /\ game_paused' = SaysPaused(status)
         /\ sent' = (IF SaysPaused(status) THEN <<"RESUME">> ELSE << >>) \o <<"RESTART">>
         /\ probed' = ~restart_ok
         /\ restarted' = (IF restart_ok THEN "answered" ELSE "unanswered")
    /\ connection_errors' = 0
    /\ UNCHANGED <<bot_last_matrix, seen, was_paused, paused_at_gate, fetched,
                   over, over_at_top, paused_run, resumes_run, last_matrix_update>>
    /\ UNCHANGED <<strategy_vars, analysis_vars>>

\* start (lines 22-44) up to the call of game_loop, and lines 126-128 of it
start ==
    /\ pc = "init"
    /\ pc' = "top"
    /\ running' = TRUE
    /\ \E status \in StatusResponses, restart_ok \in BOOLEAN :
         /\ game_paused' = FALSE
         /\ sent' = (IF SaysPaused(status) THEN <<"RESUME">> ELSE << >>) \o <<"RESTART">>
         /\ probed' = ~restart_ok
         /\ restarted' = (IF restart_ok THEN "answered" ELSE "unanswered")
    /\ connection_errors' = 0
    /\ UNCHANGED <<bot_last_matrix, seen, was_paused, paused_at_gate, fetched,
                   over, over_at_top, paused_run, resumes_run, last_matrix_update>>
    /\ UNCHANGED <<strategy_vars, analysis_vars>>

\* stop (lines 46-49), from the signal handler
stop ==
    /\ pc \in {"top", "fetch"}
    /\ running
    /\ running' = FALSE
    /\ UNCHANGED <<pc, game_paused, connection_errors, bot_last_matrix,
                   seen, was_paused, paused_at_gate, fetched, sent, probed,
                   over, over_at_top, paused_run, resumes_run, last_matrix_update, restarted>>
    /\ UNCHANGED <<strategy_vars, analysis_vars>>

\* line 130 as "while True": the loop goes on to another iteration
loop_goes_on ==
    /\ pc = "top"
    /\ ~running
    /\ pc' = "fetch"
    /\ UNCHANGED <<running, game_paused, connection_errors, bot_last_matrix,
                   seen, was_paused, paused_at_gate, fetched, sent, probed,
                   over, over_at_top, paused_run, resumes_run, last_matrix_update, restarted>>
    /\ UNCHANGED <<strategy_vars, analysis_vars>>

\* line 130 finding self.running false: game_loop returns
loop_exit ==
    /\ pc = "top"
    /\ ~running
    /\ pc' = "done"
    /\ UNCHANGED <<running, game_paused, connection_errors, bot_last_matrix,
                   seen, was_paused, paused_at_gate, fetched, sent, probed,
                   over, over_at_top, paused_run, resumes_run, last_matrix_update, restarted>>
    /\ UNCHANGED <<strategy_vars, analysis_vars>>

\* lines 130-168: the top of an iteration with the status refresh that is
\* due when more than pause_check_interval seconds have passed (time.time()
\* is an input: due is any of the two), then the gate; the paused branch
\* sleeps and continues with the next iteration
loop_top ==
    /\ pc = "top"
    /\ running
    /\ was_paused' = game_paused
    /\ over_at_top' = over
    /\ fetched' = "no"
    /\ probed' = FALSE
    /\ \E due \in BOOLEAN :
         IF due
         THEN \E status \in StatusResponses :
              \E status2 \in (IF ReadsAgain(game_paused, status)
                              THEN StatusResponses ELSE {NoStatus}) :
                LET r == RefreshStatus(game_paused, status, status2)
                    answers == Answers(status, ReadsAgain(game_paused, status), status2)
                IN /\ game_paused' = r.paused
                   /\ sent' = r.sent
                   /\ seen' = status
                   /\ over' = OverAfter(over, answers)
                   /\ paused_run' = RunAfter(paused_run, answers)
                   /\ resumes_run' = ResumesAfter(resumes_run, answers, Len(r.sent))
         ELSE /\ sent' = << >>
              /\ seen' = "none"
              /\ UNCHANGED <<game_paused, over, paused_run, resumes_run>>
    /\ paused_at_gate' = game_paused'
    /\ pc' = Gate(game_paused')
    /\ UNCHANGED <<running, connection_errors, bot_last_matrix, last_matrix_update, restarted>>
    /\ UNCHANGED <<strategy_vars, analysis_vars>>

\* the iteration without the test of line 173: lines 182-185 run for an
\* absent snapshot too, for which decide_next_move draws a move (line 377)
loop_fetch_always_deciding ==
    /\ pc = "fetch"
    /\ pc' = "top"
    /\ \E m \in BotSnapshots :
         IF m # << >>
         THEN /\ fetched' = "present"
              /\ connection_errors' = 0
              /\ last_matrix_update' = 1
              /\ \E next_move \in decide_next_move(m, bot_last_matrix) :
                   sent' = Append(sent, next_move)
              /\ bot_last_matrix' = m
              /\ UNCHANGED <<game_paused, probed, over, paused_run, resumes_run>>
         ELSE /\ fetched' = "absent"
              /\ \E stale \in (IF last_matrix_update = 0 THEN {TRUE} ELSE BOOLEAN) :
                   IF stale
                   THEN /\ last_matrix_update' = 1
                        /\ \E status \in StatusResponses :
                           \E status2 \in (IF SaysPaused(status)
                                           THEN StatusResponses ELSE {NoStatus}) :
                             LET r == StaleStatus(game_paused, status, status2)
                                 answers == Answers(status, SaysPaused(status), status2)
                             IN /\ game_paused' = r.paused
                                /\ \E next_move \in decide_next_move(m, bot_last_matrix) :
                                     sent' = (sent \o r.sent) \o <<next_move>>
                                /\ over' = OverAfter(over, answers)
                                /\ paused_run' = RunAfter(paused_run, answers)
                                /\ resumes_run' = ResumesAfter(resumes_run, answers,
                                                               Len(r.sent))
                   ELSE /\ \E next_move \in decide_next_move(m, bot_last_matrix) :
                             sent' = Append(sent, next_move)
                        /\ UNCHANGED <<game_paused, over, paused_run, resumes_run,
                                       last_matrix_update>>
              /\ connection_errors' = CountFailure(connection_errors).errors
              /\ probed' = CountFailure(connection_errors).probed
              /\ UNCHANGED bot_last_matrix
    /\ UNCHANGED <<running, seen, was_paused, paused_at_gate, over_at_top, restarted>>
    /\ UNCHANGED <<strategy_vars, analysis_vars>>

\* lines 170-216: the rest of an iteration that passed the gate; the status
\* check of lines 194-208 is made when the last update of the matrix is more
\* than 5 seconds old, which it is as long as last_matrix_update is 0
loop_fetch ==
    /\ pc = "fetch"
    /\ pc' = "top"
    /\ \E m \in BotSnapshots :
         IF m # << >>
         THEN /\ fetched' = "present"
              /\ connection_errors' = 0
              /\ last_matrix_update' = 1
              /\ \E next_move \in decide_next_move(m, bot_last_matrix) :
                   sent' = Append(sent, next_move)
              /\ bot_last_matrix' = m
              /\ UNCHANGED <<game_paused, probed, over, paused_run, resumes_run>>
         ELSE /\ fetched' = "absent"
              /\ \E stale \in (IF last_matrix_update = 0 THEN {TRUE} ELSE BOOLEAN) :
                   IF stale
                   THEN /\ last_matrix_update' = 1
                        /\ \E status \in StatusResponses :
                           \E status2 \in (IF SaysPaused(status)
                                           THEN StatusResponses ELSE {NoStatus}) :
                             LET r == StaleStatus(game_paused, status, status2)
                                 answers == Answers(status, SaysPaused(status), status2)
                             IN /\ game_paused' = r.paused
                                /\ sent' = sent \o r.sent
                                /\ over' = OverAfter(over, answers)
                                /\ paused_run' = RunAfter(paused_run, answers)
                                /\ resumes_run' = ResumesAfter(resumes_run, answers,
                                                               Len(r.sent))
                   ELSE UNCHANGED <<game_paused, sent, over, paused_run, resumes_run,
                                    last_matrix_update>>
              /\ connection_errors' = CountFailure(connection_errors).errors
              /\ probed' = CountFailure(connection_errors).probed
              /\ UNCHANGED bot_last_matrix
    /\ UNCHANGED <<running, seen, was_paused, paused_at_gate, over_at_top, restarted>>
    /\ UNCHANGED <<strategy_vars, analysis_vars>>

-----------------------------------------------------------------------------
vars == <<last_matrix, current_action_sequence, arg, ret, raised, path,
          matrix, previous_matrix, op, result,
          pc, running, game_paused, connection_errors, bot_last_matrix,
          seen, was_paused, paused_at_gate, fetched, sent, probed,
          over, over_at_top, paused_run, resumes_run, last_matrix_update, restarted>>

Init == StrategyInit /\ AnalysisIdle /\ BotIdle

Next == \E m \in PlannerSnapshots : decide_move(m) /\ UNCHANGED <<analysis_vars, bot_vars>>

Spec == Init /\ [][Next]_vars

AnalysisSpecInit == StrategyInit /\ AnalysisInit /\ BotIdle

AnalysisNext ==
    \/ ApplyColumnHeights
    \/ ApplyGetHeights
    \/ ApplyCountHoles
    \/ ApplyBotCountHoles
    \/ ApplyBumpiness
    \/ ApplyPotentialLines
    \/ ApplyTargetColumn
    \/ ApplyTargetLine
    \/ ApplyIdentifyActivePiece
    \/ ApplyBotIdentifyActivePiece
    \/ ApplyPlanActionSequence
    \/ ApplyBasicStrategy
    \/ ApplyDecideNextMove

AnalysisSpec == AnalysisSpecInit /\ [][AnalysisNext]_vars

BotSpecInit == StrategyInit /\ AnalysisIdle /\ BotInit

BotNext ==
    \/ start
    \/ stop
    \/ loop_exit
    \/ loop_top
    \/ loop_fetch

BotSpec == BotSpecInit /\ [][BotNext]_vars

-----------------------------------------------------------------------------
(* The claims about decide_move, under Spec.                                *)

\* C1: a call with a non-empty snapshot that finds commands queued returns
\* the head of the queue and removes just that, without planning: a queue
\* a1..aN is returned in this order by the next N such calls, and a call
\* plans only when it finds the queue empty
C1_QueueDrainsInOrder ==
    [][ /\ (arg' # << >> /\ current_action_sequence # << >>)
           => /\ ret' = Head(current_action_sequence)
              /\ current_action_sequence' = Tail(current_action_sequence)
              /\ path' = "sequence"
              /\ ~raised'
        /\ (arg' # << >> /\ path' \in {"planned", "basic", "raise"})
           => current_action_sequence = << >> ]_vars

\* the queue [RIGHT, RIGHT, ROTATE_CW, DROP] after the call that took its head
C1_Witness ==
    /\ path = "sequence"
    /\ ret = "RIGHT"
    /\ current_action_sequence = <<"RIGHT", "ROTATE_CW", "DROP">>

\* C2: whatever the queue and the cached snapshot, a decide_move call with
\* a snapshot of the data model raises nothing and returns a command
C2_ReturnsCommand ==
    path # "init" => (~raised /\ ret # "" /\ ret \in Commands)

\* a plan made from rows listed bottom line first, the first one short
C2_Witness ==
    /\ path = "planned"
    /\ Len(arg) = 2
    /\ arg[1].line > arg[2].line
    /\ Len(arg[1].cells) < matrix_width
    /\ last_matrix = arg

\* C3: a call with an empty (or None) snapshot returns LEFT, RIGHT, DOWN or
\* ROTATE_CW, whatever the queue and the cached snapshot hold
C3_EmptySnapshotMove ==
    (path # "init" /\ arg = << >>) => ret \in {"LEFT", "RIGHT", "DOWN", "ROTATE_CW"}

\* such a call while commands are queued and a snapshot is cached
C3_Witness ==
    /\ path = "random"
    /\ arg = << >>
    /\ current_action_sequence # << >>
    /\ last_matrix # << >>

\* the sequence a call planned: the command returned, then the queue left
PlannedSequence == <<ret>> \o current_action_sequence

\* the call planned in the branch of lines 148-176
PlannedForPotentialLine ==
    path = "planned" /\ _identify_potential_lines(arg) # << >>

\* C15: a sequence planned for a potential line is 0 to 3 moves, all LEFT or
\* all RIGHT, then at most one ROTATE_CW, then one DROP at the end: at most
\* 5 commands with the DROP kept
C15_PotentialPlanShape ==
    PlannedForPotentialLine
        => \E k \in 0..3, dir \in {"LEFT", "RIGHT"}, rot \in {<< >>, <<"ROTATE_CW">>} :
              PlannedSequence = Repeat(dir, k) \o rot \o <<"DROP">>

\* the longest plan: three moves, the rotation and the DROP
C15_Witness ==
    /\ PlannedForPotentialLine
    /\ PlannedSequence = <<"RIGHT", "RIGHT", "RIGHT", "ROTATE_CW", "DROP">>

\* C16: a sequence planned in the minimal-height branch (no potential line)
\* has at most 4 commands and DROP as the last of them
C16_MinimalPlanEndsWithDrop ==
    (path = "planned" /\ _identify_potential_lines(arg) = << >>)
        => /\ Len(PlannedSequence) <= 4
           /\ PlannedSequence[Len(PlannedSequence)] = "DROP"

-----------------------------------------------------------------------------
(* The claims about the polling loop, under BotSpec.                        *)

Gameplay(cmds) == {i \in 1..Len(cmds) : cmds[i] \in Commands}

\* C4: after a status refresh has observed GAME_OVER, an iteration that
\* begins with GAME_OVER still the latest status fetches no snapshot
C4_NoFetchWhileGameOver ==
    (over_at_top /\ over) => fetched = "no"

\* C5: an iteration whose refresh step ends with the paused flag set
\* fetches no snapshot, decides no move and dispatches no gameplay command
C5_PausedIterationOnlyWaits ==
    paused_at_gate => (fetched = "no" /\ Gameplay(sent) = {})

\* an iteration that found the game paused, tried RESUME and went to wait
C5_Witness ==
    /\ paused_at_gate
    /\ pc = "top"
    /\ seen = "PAUSED"
    /\ sent = <<"RESUME">>

\* C6: while the status endpoint keeps answering PAUSED, RESUME is sent
\* again: by the fourth PAUSED answer in a row, which is at least the second
\* refresh after the first RESUME, a second RESUME has gone out
C6_ResumeReissued ==
    paused_run >= MaxPausedRun => resumes_run >= 2

\* C7: a refresh that gets no usable state (no status, no state field, an
\* unknown state) leaves the paused flag false, and the iteration goes on
\* to fetch the snapshot
C7_UnusableStatusMeansPlaying ==
    (HasStarted /\ seen \in {NoStatus, NoStateField, "UNKNOWN"})
        => (~paused_at_gate /\ (pc = "fetch" \/ fetched # "no"))

\* C8: a refresh of a paused driver that gets a state other than PAUSED
\* clears the paused flag, and the iteration goes on to fetch the snapshot
C8_NonPausedStateEndsPause ==
    (was_paused /\ HasState(seen) /\ seen # "PAUSED")
        => (~paused_at_gate /\ (pc = "fetch" \/ fetched # "no"))

\* a pause ended by GAME_OVER, the snapshot fetched and a command sent
C8_Witness ==
    /\ was_paused
    /\ seen = "GAME_OVER"
    /\ fetched = "present"
    /\ Len(sent) = 1
    /\ sent[1] \in Commands

\* C17: the counter of absent snapshots stays between 0 and 4; a fetch that
\* comes back present resets it without a probe, a fetch that comes back
\* absent runs the probe exactly when it is the fifth in a row, and the
\* probe resets the counter
C17_ProbeAfterFiveFailures ==
    /\ [](connection_errors \in 0..4)
    /\ [][ pc = "fetch"
             => /\ fetched' = "present" => (connection_errors' = 0 /\ ~probed')
                /\ fetched' = "absent"
                     => /\ probed' <=> connection_errors = 4
                        /\ connection_errors' = IF probed' THEN 0
                                                ELSE connection_errors + 1 ]_vars

\* the iteration whose absent snapshot was the fifth: probe run, counter 0
C17_Witness ==
    /\ pc = "top"
    /\ fetched = "absent"
    /\ probed
    /\ connection_errors = 0

\* C18: once stop() has cleared the running flag the loop can only finish
\* the iteration in progress and then leave at the test of the flag, with
\* no request made on leaving; after it has left, nothing happens any more
C18_StopEndsLoop ==
    [][ (HasStarted /\ ~running)
           => \/ pc = "fetch" /\ pc' = "top"
              \/ /\ pc = "top" /\ pc' = "done"
                 /\ UNCHANGED <<seen, fetched, sent, probed, game_paused>> ]_vars

\* the loop left after stop() came during an iteration that fetched and sent
C18_Witness ==
    /\ pc = "done"
    /\ ~running
    /\ fetched = "present"
    /\ Gameplay(sent) # {}

-----------------------------------------------------------------------------
(* The claims about the analysis functions, under AnalysisSpec.             *)

OccupiedLines(m, col) ==
    {m[i].line : i \in {k \in 1..Len(m) : /\ HasCells(m[k])
                                          /\ col < Len(m[k].cells)
                                          /\ m[k].cells[col + 1] > 0}}

TopmostHeight(m, col) ==
    IF OccupiedLines(m, col) = {} THEN 0
    ELSE matrix_height - (CHOOSE l \in OccupiedLines(m, col) :
                             \A k \in OccupiedLines(m, col) : l <= k)

\* C9: heights[c] is board_height minus the smallest line with an occupied
\* cell in column c, 0 without one, in whatever order the rows are listed
C9_HeightsFromTopmostCell ==
    op \in {"_get_column_heights", "get_heights"}
        => \A c \in 0..(matrix_width - 1) : result[c + 1] = TopmostHeight(matrix, c)

\* C10: for rows with lines in 0..19 the heights are matrix_width numbers,
\* each in 0..matrix_height
C10_HeightsInRange ==
    op \in {"_get_column_heights", "get_heights"}
        => /\ Len(result) = matrix_width
           /\ \A c \in 1..matrix_width : result[c] \in 0..matrix_height

\* both ends of the range: a block on line 0 beside an empty column
C10_Witness ==
    /\ op = "_get_column_heights"
    /\ \A i \in 1..Len(matrix) : matrix[i].line \in 0..(matrix_height - 1)
    /\ result[1] = 0
    /\ result[2] = matrix_height

\* the cells, as <<row position, column>>, of the first matrix_width columns
CellsOf(m) ==
    {p \in (1..Len(m)) \X (0..(matrix_width - 1)) :
        HasCells(m[p[1]]) /\ p[2] < Len(m[p[1]].cells)}

EmptyCells(m) == {p \in CellsOf(m) : m[p[1]].cells[p[2] + 1] = 0}

HoleCells(m) ==
    {p \in EmptyCells(m) : \E l \in OccupiedLines(m, p[2]) : l < m[p[1]].line}

\* C11: the hole count is the number of empty cells with an occupied cell on
\* a smaller line of the same column, so between 0 and the number of empty
\* cells, in whatever order the rows are listed
C11_HolesAreCoveredEmptyCells ==
    op \in {"_count_holes", "count_holes"}
        => /\ result = Cardinality(HoleCells(matrix))
           /\ result >= 0
           /\ result <= Cardinality(EmptyCells(matrix))

\* three holes on line 19 under the blocks of line 18, bottom row listed first
C11_Witness ==
    /\ op = "count_holes"
    /\ Len(matrix) = 2
    /\ matrix[1].line > matrix[2].line
    /\ result = 3

PairGap(a, b) == IF a >= b THEN a - b ELSE b - a

\* the gaps between the first n pairs of neighbours
RECURSIVE GapsUpTo(_, _)
GapsUpTo(h, n) == IF n = 0 THEN 0 ELSE GapsUpTo(h, n - 1) + PairGap(h[n], h[n + 1])

\* C12: bumpiness is the sum of |heights[i] - heights[i+1]| over the pairs of
\* neighbouring columns, unscaled, never negative, and 0 for a level board
C12_BumpinessIsSumOfGaps ==
    op = "_calculate_bumpiness"
        => LET h == _get_column_heights(matrix)
           IN /\ result = GapsUpTo(h, matrix_width - 1)
              /\ result >= 0
              /\ (\A c \in 1..matrix_width : h[c] = h[1]) => result = 0

\* one step of height 2 between columns 2 and 3
C12_Witness ==
    /\ op = "_calculate_bumpiness"
    /\ matrix = << [line |-> 18, cells |-> Gap0] >>
    /\ result = 2

\* a snapshot holds one row per line
DistinctLines(m) == \A i, j \in 1..Len(m) : m[i].line = m[j].line => i = j

\* the <<line, column>> pairs occupied in m and empty in the row of the same
\* line of prev
ChangedCells(m, prev) ==
    { <<m[p[1]].line, p[2]>> :
        p \in {q \in CellsOf(m) :
                 /\ m[q[1]].cells[q[2] + 1] > 0
                 /\ \E j \in 1..Len(prev) :
                       /\ prev[j].line = m[q[1]].line
                       /\ q[2] < Len(prev[j].cells)
                       /\ prev[j].cells[q[2] + 1] = 0} }

\* C13: for snapshots with one row per line, the active-piece estimate holds
\* exactly the cells occupied now and empty in the row of the same line of
\* the previous snapshot, each once, and is empty (None) when the two
\* snapshots are the same
C13_ActivePieceIsNewCells ==
    (/\ op \in {"_identify_active_piece", "identify_active_piece"}
     /\ DistinctLines(matrix)
     /\ DistinctLines(previous_matrix))
        => /\ {result[k] : k \in 1..Len(result)} = ChangedCells(matrix, previous_matrix)
           /\ Len(result) = Cardinality(ChangedCells(matrix, previous_matrix))
           /\ matrix = previous_matrix => result = << >>

\* seven cells that appeared on line 19, a second row without a match
C13_Witness ==
    /\ op = "identify_active_piece"
    /\ Len(matrix) = 2
    /\ DistinctLines(matrix)
    /\ previous_matrix = << [line |-> 19, cells |-> Zeros] >>
    /\ Len(result) = 7

\* the occupied cells of the row at position i
OccupiedIn(m, i) == {p \in CellsOf(m) : p[1] = i /\ m[i].cells[p[2] + 1] > 0}

\* the columns of the row of line l that hold an empty cell
GapsOfLine(m, l) ==
    {p[2] : p \in {q \in EmptyCells(m) : m[q[1]].line = l}}

\* C14: the potential lines are the rows with at least 7 occupied cells, and
\* the target column of a line is the lowest column of an empty cell of its
\* row, or 5 when the row has none
C14_PotentialLinesAndTargetColumn ==
    /\ op = "_identify_potential_lines"
         => /\ \A i \in 1..Len(matrix) :
                  (\E k \in 1..Len(result) :
                      result[k] = <<matrix[i].line, Cardinality(OccupiedIn(matrix, i))>>)
                  <=> Cardinality(OccupiedIn(matrix, i)) >= 7
            /\ \A k \in 1..Len(result) :
                  \E i \in 1..Len(matrix) :
                      /\ result[k] = <<matrix[i].line, Cardinality(OccupiedIn(matrix, i))>>
                      /\ result[k][2] >= 7
    /\ (op = "_get_target_column" /\ DistinctLines(matrix))
         => IF GapsOfLine(matrix, result[1]) # {}
            THEN /\ result[2] \in GapsOfLine(matrix, result[1])
                 /\ \A c \in GapsOfLine(matrix, result[1]) : result[2] <= c
            ELSE result[2] = 5

\* the row {line: 19, cells: [1,1,1,1,1,1,1,0,0,0]}: target column 7
C14_Witness ==
    /\ op = "_get_target_column"
    /\ matrix = << [line |-> 19, cells |-> Gap7] >>
    /\ result = <<19, 7>>

\* the positions of the rows with at least 7 occupied cells
PotentialRows(m) == {i \in 1..Len(m) : Cardinality(OccupiedIn(m, i)) >= 7}

\* the target is the row at position i, no row is fuller, and the rows as
\* full as it are on the side of it that after says
TargetIs(i, after) ==
    /\ result = <<matrix[i].line, Cardinality(OccupiedIn(matrix, i))>>
    /\ \A j \in PotentialRows(matrix) :
          /\ Cardinality(OccupiedIn(matrix, j)) <= Cardinality(OccupiedIn(matrix, i))
          /\ Cardinality(OccupiedIn(matrix, j)) = Cardinality(OccupiedIn(matrix, i))
               => IF after THEN i <= j ELSE j <= i

\* C20 as claimed: the target is a fullest potential line, the last listed
\* of the fullest ones
C20_TargetIsLastFullest ==
    op = "target_line" => \E i \in PotentialRows(matrix) : TargetIs(i, FALSE)

\* C20 as amended: the target is a fullest potential line, the first listed
\* of the fullest ones
C20_TargetIsFirstFullest ==
    op = "target_line" => \E i \in PotentialRows(matrix) : TargetIs(i, TRUE)

\* two lines with 7 cells each: the one listed first is the target
C20_Witness ==
    /\ op = "target_line"
    /\ matrix = << [line |-> 19, cells |-> Gap7], [line |-> 18, cells |-> Gap0] >>
    /\ result = <<19, 7>>

-----------------------------------------------------------------------------
(* The claims about the planning functions, under AnalysisSpec.             *)

\* the estimate of the active piece the function applied was given
EstimateOf(m, prev) == _identify_active_piece(m, prev)

\* the column a plan for m steers to: the gap column of the target line
\* when there are potential lines, else the first of the lowest columns
SteersTo(m) ==
    IF PotentialRows(m) # {}
    THEN _get_target_column(m, MaxByCount(_identify_potential_lines(m))[1])
    ELSE LET h == _get_column_heights(m)
         IN CHOOSE c \in 0..(matrix_width - 1) :
               /\ \A d \in 0..(matrix_width - 1) : h[c + 1] <= h[d + 1]
               /\ \A d \in 0..(c - 1) : h[d + 1] > h[c + 1]

IsMove(c) == c \in {"LEFT", "RIGHT"}

\* a sequence begins with k moves to dir and holds no other move
BeginsWithMoves(s, k, dir) ==
    /\ k <= Len(s)
    /\ \A i \in 1..Len(s) : IsMove(s[i]) <=> i <= k
    /\ \A i \in 1..k : s[i] = dir

\* C21: a planned sequence begins with its horizontal moves and has no
\* other; for a piece of n cells whose columns sum to t and a target column
\* c they are RIGHT when t/n < c and LEFT when t/n > c, and they are
\* min(3, floor(|t/n - c|)) in number, so none when |t/n - c| < 1
C21_MovesTowardTarget ==
    (op = "_plan_action_sequence" /\ EstimateOf(matrix, previous_matrix) # << >>)
        => LET cols == PieceCols(EstimateOf(matrix, previous_matrix))
               n == Len(cols)
               t == SumSeq(cols)
               c == SteersTo(matrix)
               dist == IF t >= c * n THEN t - c * n ELSE c * n - t
           IN \A plan \in result :
                 /\ ~plan.exc
                 /\ \E k \in 0..3 :
                       /\ BeginsWithMoves(plan.seq, k, IF t < c * n THEN "RIGHT" ELSE "LEFT")
                       /\ k * n <= dist
                       /\ k < 3 => dist < (k + 1) * n
                       /\ dist < n => k = 0

\* a piece that filled line 18: centroid 4.5, target column 5, no move
C21_Witness ==
    /\ op = "_plan_action_sequence"
    /\ matrix = << [line |-> 18, cells |-> Full] >>
    /\ previous_matrix = << [line |-> 18, cells |-> Zeros] >>
    /\ result = {Planned(<<"DROP">>), Planned(<<"ROTATE_CW", "DROP">>)}

\* the first column, among those the function's own heights make lowest
LowestColumn(h) ==
    CHOOSE c \in 0..(matrix_width - 1) :
        /\ \A d \in 0..(matrix_width - 1) : h[c + 1] <= h[d + 1]
        /\ \A d \in 0..(c - 1) : h[d + 1] > h[c + 1]

\* C23: with more than 3 holes and a non-empty estimate the fallback (and
\* the move decision of the bot, which repeats it) returns RIGHT when the
\* column of the first cell of the estimate is less than the lowest column,
\* LEFT when it is greater and DROP when it is the lowest column: the
\* bumpiness test and the random draws are not reached
C23_SteersToLowestColumn ==
    (/\ op \in {"_basic_strategy", "decide_next_move"}
     /\ Cardinality(HoleCells(matrix)) > 3
     /\ EstimateOf(matrix, previous_matrix) # << >>)
        => LET first_col == EstimateOf(matrix, previous_matrix)[1][2]
               lowest == LowestColumn(IF op = "_basic_strategy"
                                      THEN _get_column_heights(matrix)
                                      ELSE get_heights(matrix))
           IN result = IF first_col < lowest THEN {"RIGHT"}
                       ELSE IF first_col > lowest THEN {"LEFT"}
                       ELSE {"DROP"}

\* seven holes on line 19, the piece on columns 0 to 2 of line 18 and the
\* lowest column 7: RIGHT
C23_Witness ==
    /\ op = "_basic_strategy"
    /\ matrix = << [line |-> 18, cells |-> Gap7], [line |-> 19, cells |-> Zeros] >>
    /\ previous_matrix = << [line |-> 18, cells |-> Gap0] >>
    /\ result = {"RIGHT"}

-----------------------------------------------------------------------------
(* More claims about decide_move, under Spec, as properties of one call:    *)
(* the unprimed variables are the planner before the call, arg' is the      *)
(* snapshot passed.                                                         *)

\* the call is given a non-empty snapshot and finds the queue empty
PlanningCall == arg' # << >> /\ current_action_sequence = << >>

\* what the fallback can return for a snapshot without an estimate
FallbackFor(m) ==
    LET heights == _get_column_heights(m)
    IN _basic_strategy(m, heights, _count_holes(m), _calculate_bumpiness(heights), << >>)

\* C22: a call with a non-empty snapshot that finds the queue empty and
\* gets an empty estimate of the active piece (nothing cached, or no cell
\* newly occupied) plans nothing in either branch: the queue is empty when
\* it returns, and what it returns is what the fallback returned
C22_NoEstimateNoPlan ==
    [][ (PlanningCall /\ EstimateOf(arg', last_matrix) = << >>)
           => /\ current_action_sequence' = << >>
              /\ ~raised'
              /\ path' = "basic"
              /\ ret' \in FallbackFor(arg') ]_vars

\* the fallback answering DROP for a line with 7 cells and nothing queued
C22_Witness ==
    /\ path = "basic"
    /\ arg = << [line |-> 19, cells |-> Gap7] >>
    /\ current_action_sequence = << >>
    /\ ret = "DROP"

\* C24: a planning call with a non-empty estimate plans a non-empty
\* sequence and returns its head, so the fallback is reached only with an
\* empty estimate: neither of its steering branches is taken, and whatever
\* the holes and the bumpiness its result is one of the random draws
C24_FallbackOnlyWithoutEstimate ==
    [][ /\ path' = "basic" => PlanningCall
        /\ PlanningCall
           => IF EstimateOf(arg', last_matrix) # << >>
              THEN /\ path' = "planned"
                   /\ ~raised'
                   /\ ret' \in Commands
              ELSE /\ path' = "basic"
                   /\ FallbackFor(arg') = Commands
                   /\ ret' \in Commands ]_vars

\* the fallback drawing DOWN over a board with seven holes
C24_Witness ==
    /\ path = "basic"
    /\ Cardinality(HoleCells(arg)) > 3
    /\ ret = "DOWN"

\* C25: every call returns one of the six gameplay commands, so never
\* RESTART or RESUME, and the queue holds nothing but those six
C25_OnlyGameplayCommands ==
    /\ path # "init" => (~raised /\ ret \in Commands /\ ret \notin {"RESTART", "RESUME"})
    /\ \A i \in 1..Len(current_action_sequence) : current_action_sequence[i] \in Commands

\* ROTATE_CCW, which only a minimal-height plan holds, returned from the queue
C25_Witness ==
    /\ path = "sequence"
    /\ ret = "ROTATE_CCW"
    /\ last_matrix # << >>

\* C26: when a call has returned the queue holds at most 4 commands, a DROP
\* only as its last one, and not both LEFT and RIGHT
C26_QueueShape ==
    /\ Len(current_action_sequence) <= 4
    /\ \A i \in 1..Len(current_action_sequence) :
          current_action_sequence[i] = "DROP" => i = Len(current_action_sequence)
    /\ ~ /\ \E i \in 1..Len(current_action_sequence) : current_action_sequence[i] = "LEFT"
         /\ \E i \in 1..Len(current_action_sequence) : current_action_sequence[i] = "RIGHT"

\* a plan of 5 commands after the call that made it
C26_Witness ==
    /\ path = "planned"
    /\ Len(current_action_sequence) = 4
    /\ current_action_sequence[4] = "DROP"

\* C27: a call with an empty snapshot leaves the queue and the cached
\* snapshot as they were; a call with a non-empty snapshot caches it, also
\* when it only dequeues; so the cached snapshot is the latest non-empty one
\* passed, and a planning call plans exactly when the snapshot has a cell
\* newly occupied against it
C27_CacheIsLatestSnapshot ==
    /\ [](arg # << >> => last_matrix = arg)
    /\ [][ /\ arg' = << >> => UNCHANGED <<current_action_sequence, last_matrix>>
           /\ arg' # << >> => last_matrix' = arg'
           /\ PlanningCall
                => (path' = "planned" <=> EstimateOf(arg', last_matrix) # << >>) ]_vars

\* an empty snapshot passed while two commands wait and line 18 is cached
C27_Witness ==
    /\ path = "random"
    /\ arg = << >>
    /\ current_action_sequence = <<"ROTATE_CW", "DROP">>
    /\ last_matrix = << [line |-> 18, cells |-> Gap0] >>

-----------------------------------------------------------------------------
(* The dispatch of the polling loop, under BotSpec.                         *)

\* C28: an iteration that passes the gate has dispatched no gameplay
\* command before it fetches; when the snapshot is present it dispatches
\* one, the command decide_next_move returns for that snapshot and the one
\* of the iteration before; when the snapshot is absent it dispatches none
\* and can only send RESUME; an iteration that ends paused has sent nothing
\* but RESUME
C28_OneCommandPerSnapshot ==
    /\ [] /\ fetched = "present"
               => (~paused_at_gate /\ Cardinality(Gameplay(sent)) = 1)
          /\ fetched # "present" => Gameplay(sent) = {}
          /\ (paused_at_gate \/ fetched = "absent")
               => \A i \in 1..Len(sent) : sent[i] = "RESUME"
    /\ [][ pc = "fetch"
             => /\ fetched' = "present"
                     => \E c \in decide_next_move(bot_last_matrix', bot_last_matrix) :
                           /\ c \in Commands
                           /\ sent' = Append(sent, c)
                /\ fetched' = "absent"
                     => /\ Len(sent') >= Len(sent)
                        /\ SubSeq(sent', 1, Len(sent)) = sent ]_vars

\* an iteration that resumed the game, fetched two rows and steered LEFT
\* toward the lowest column
C28_Witness ==
    /\ pc = "top"
    /\ fetched = "present"
    /\ sent = <<"RESUME", "LEFT">>
    /\ Len(bot_last_matrix) = 2

====
